---- MODULE Spec2Model ----
(***************************************************************************)
(* Model of solver.py (ben741/product-match): manufacturer key derivation, *)
(* fuzzy pattern generation, catalog indexing and listing matching.        *)
(* A Python str is a sequence of one-character strings.                    *)
(***************************************************************************)
EXTENDS Integers, Sequences, FiniteSets, TLC

VARIABLES pc,
          listing_man, loaded_index,
          man_arg, man_key,
          target, text, regex, found,
          products_file, line_no, products_by_manufacturer, model_words,
          cursor, n_listings, listing, product_name, results

vars == <<pc, listing_man, loaded_index, man_arg, man_key, target, text, regex, found,
          products_file, line_no, products_by_manufacturer, model_words,
          cursor, n_listings, listing, product_name, results>>

(***************************************************************************)
(* Bounds                                                                  *)
(***************************************************************************)
MaxManLen == 5
MaxTargetLen == 3
MaxTextLen == 5
MaxProducts == 5
MaxListings == 2

(***************************************************************************)
(* Python str primitives                                                   *)
(***************************************************************************)
Digits == {"0", "1", "2", "3", "4", "5", "6", "7", "8", "9"}

Whitespace == {" ", "\t"}

ToUpper ==
    ("a" :> "A") @@ ("b" :> "B") @@ ("c" :> "C") @@ ("d" :> "D") @@ ("e" :>
    "E") @@ ("f" :> "F") @@ ("g" :> "G") @@ ("h" :> "H") @@ ("i" :> "I") @@
    ("j" :> "J") @@ ("k" :> "K") @@ ("l" :> "L") @@ ("m" :> "M") @@ ("n" :>
    "N") @@ ("o" :> "O") @@ ("p" :> "P") @@ ("q" :> "Q") @@ ("r" :> "R") @@
    ("s" :> "S") @@ ("t" :> "T") @@ ("u" :> "U") @@ ("v" :> "V") @@ ("w" :>
    "W") @@ ("x" :> "X") @@ ("y" :> "Y") @@ ("z" :> "Z")

IsLowerChar(c) == c \in DOMAIN ToUpper

upper_char(c) == IF IsLowerChar(c) THEN ToUpper[c] ELSE c

\* str.upper()
upper(s) == [i \in 1..Len(s) |-> upper_char(s[i])]

\* str.isdigit(): non-empty and every character a digit
isdigit(s) == Len(s) > 0 /\ \A i \in 1..Len(s) : s[i] \in Digits

\* s[:n]
Take(s, n) == SubSeq(s, 1, IF n < Len(s) THEN n ELSE Len(s))

\* s[n:] (1-based: everything from position n on)
Drop(s, n) == SubSeq(s, n, Len(s))

RECURSIVE replace(_, _, _)
\* str.replace(old, new) for a one-character old and a 0- or 1-character new
replace(s, old, new) ==
    IF s = <<>> THEN <<>>
    ELSE (IF Head(s) = old THEN new ELSE <<Head(s)>>) \o replace(Tail(s), old, new)

RECURSIVE split_sep(_, _)
\* str.split(sep): one-character separator, empty fields are kept
split_sep(s, sep) ==
    IF \A i \in 1..Len(s) : s[i] # sep THEN <<s>>
    ELSE LET i == CHOOSE j \in 1..Len(s) :
                     s[j] = sep /\ \A k \in 1..(j - 1) : s[k] # sep
         IN  <<SubSeq(s, 1, i - 1)>> \o split_sep(Drop(s, i + 1), sep)

RECURSIVE split_ws(_)
\* str.split(): runs of whitespace separate, empty fields are dropped
split_ws(s) ==
    IF s = <<>> THEN <<>>
    ELSE IF Head(s) \in Whitespace THEN split_ws(Tail(s))
    ELSE IF \A i \in 1..Len(s) : s[i] \notin Whitespace THEN <<s>>
    ELSE LET i == CHOOSE j \in 1..Len(s) :
                     s[j] \in Whitespace /\ \A k \in 1..(j - 1) : s[k] \notin Whitespace
         IN  <<SubSeq(s, 1, i - 1)>> \o split_ws(Drop(s, i + 1))

RECURSIVE join(_, _)
\* sep.join(words)
join(sep, words) ==
    IF words = <<>> THEN <<>>
    ELSE IF Len(words) = 1 THEN words[1]
    ELSE words[1] \o sep \o join(sep, Tail(words))

\* every str over an alphabet of length at most n
Strings(alphabet, n) == UNION {[1..k -> alphabet] : k \in 0..n}

(***************************************************************************)
(* get_manufacturer                                                        *)
(***************************************************************************)
KeyLen == 4

get_manufacturer_keep_periods(man) ==
    LET m == IF Len(man) = 0 THEN <<"u", "n", "k", "n", "o", "w", "n">>
             ELSE replace(upper(man), "-", <<" ">>)
    IN  Take(m, KeyLen)

get_manufacturer(man) ==
    LET m == IF Len(man) = 0 THEN <<"u", "n", "k", "n", "o", "w", "n">>
             ELSE replace(replace(upper(man), "-", <<" ">>), ".", <<>>)
    IN  Take(m, KeyLen)

(***************************************************************************)
(* generate_regex: the pattern is the sequence of the regular expression's *)
(* elements; a literal is its character, the others are the tokens below.  *)
(***************************************************************************)
GroupOpen == "("
GroupClose == ")"
OptHyphen == "-?"
OptSpace == "\\s?"
TailGuard == "([^\\d].*)?$"
HeadGuard == "^(.*[^\\d])?"

RECURSIVE join_chars(_)
\* r"-?\s?".join([c for c in target])
join_chars(t) ==
    IF Len(t) <= 1 THEN t
    ELSE <<Head(t), OptHyphen, OptSpace>> \o join_chars(Tail(t))

normalize_target(t) == replace(replace(upper(t), "-", <<>>), " ", <<>>)

generate_regex_no_tail_guard(t) ==
    LET tgt == normalize_target(t)
        ms0 == <<GroupOpen>> \o join_chars(tgt) \o <<GroupClose>>
    IN  IF tgt = <<>> THEN [raised |-> TRUE, value |-> <<>>]
        ELSE [raised |-> FALSE,
              value |-> IF tgt[1] \in Digits THEN <<HeadGuard>> \o ms0 ELSE ms0]

generate_regex_hyphen_only(t) ==
    LET tgt == normalize_target(t)
        ms0 == <<GroupOpen>> \o SelectSeq(join_chars(tgt), LAMBDA e : e # OptSpace)
                   \o <<GroupClose>>
        ms1 == IF tgt[Len(tgt)] \in Digits THEN ms0 \o <<TailGuard>> ELSE ms0
    IN  IF tgt = <<>> THEN [raised |-> TRUE, value |-> <<>>]
        ELSE [raised |-> FALSE,
              value |-> IF tgt[1] \in Digits THEN <<HeadGuard>> \o ms1 ELSE ms1]

\* target[-1] and target[0] raise IndexError on an empty target
generate_regex(t) ==
    LET tgt == normalize_target(t)
        ms0 == <<GroupOpen>> \o join_chars(tgt) \o <<GroupClose>>
        ms1 == IF tgt[Len(tgt)] \in Digits THEN ms0 \o <<TailGuard>> ELSE ms0
    IN  IF tgt = <<>> THEN [raised |-> TRUE, value |-> <<>>]
        ELSE [raised |-> FALSE,
              value |-> IF tgt[1] \in Digits THEN <<HeadGuard>> \o ms1 ELSE ms1]

RECURSIVE MatchFrom(_, _, _, _)
\* the elements rx[k..] match txt from position pos on (a prefix of the rest)
MatchFrom(rx, k, txt, pos) ==
    IF k > Len(rx) THEN TRUE
    ELSE LET e == rx[k] IN
         IF e = GroupOpen \/ e = GroupClose THEN MatchFrom(rx, k + 1, txt, pos)
         ELSE IF e = OptHyphen THEN
              \/ pos <= Len(txt) /\ txt[pos] = "-" /\ MatchFrom(rx, k + 1, txt, pos + 1)
              \/ MatchFrom(rx, k + 1, txt, pos)
         ELSE IF e = OptSpace THEN
              \/ pos <= Len(txt) /\ txt[pos] \in Whitespace
                   /\ MatchFrom(rx, k + 1, txt, pos + 1)
              \/ MatchFrom(rx, k + 1, txt, pos)
         ELSE IF e = TailGuard THEN
              \* ([^\d].*)?$ : at the end, or a non-digit and then the rest
              /\ pos = Len(txt) + 1 \/ (pos <= Len(txt) /\ txt[pos] \notin Digits)
              /\ MatchFrom(rx, k + 1, txt, Len(txt) + 1)
         ELSE IF e = HeadGuard THEN
              \* ^(.*[^\d])? : from the start, nothing or anything ending in a non-digit
              /\ pos = 1
              /\ \E p \in 1..(Len(txt) + 1) :
                    /\ p = 1 \/ txt[p - 1] \notin Digits
                    /\ MatchFrom(rx, k + 1, txt, p)
         ELSE pos <= Len(txt) /\ txt[pos] = e /\ MatchFrom(rx, k + 1, txt, pos + 1)

\* len(re.findall(rx, txt)) > 0
search(rx, txt) == \E start \in 1..(Len(txt) + 1) : MatchFrom(rx, 1, txt, start)

(***************************************************************************)
(* Inputs of the two pure functions                                        *)
(***************************************************************************)
ManAlphabet == {"h", "P", "-", "."}
TargetAlphabet == {"a", "1"}
TextAlphabet == {"A", "1", "-", " "}

ManInputs == Strings(ManAlphabet, MaxManLen)
TargetInputs == Strings(TargetAlphabet, MaxTargetLen) \ {<<>>}
TextInputs == Strings(TextAlphabet, MaxTextLen)

Unused == <<>>

LoaderUnused ==
    /\ products_file = Unused /\ line_no = 0 /\ products_by_manufacturer = Unused
    /\ model_words = Unused /\ cursor = Unused /\ n_listings = 0
    /\ listing = Unused /\ product_name = "None" /\ results = Unused
    /\ listing_man = Unused /\ loaded_index = Unused

loader_vars == <<listing_man, loaded_index, products_file, line_no, products_by_manufacturer, model_words,
                 cursor, n_listings, listing, product_name, results>>
key_vars == <<man_arg, man_key>>
regex_vars == <<target, text, regex, found>>

\* ---- get_manufacturer applied to one input
InitKey ==
    /\ pc = "key_start"
    /\ man_arg \in ManInputs
    /\ man_key = Unused
    /\ target = Unused /\ text = Unused /\ regex = Unused /\ found = FALSE
    /\ LoaderUnused

GetManufacturer ==
    /\ pc = "key_start"
    /\ man_key' = get_manufacturer(man_arg)
    /\ pc' = "key_done"
    /\ UNCHANGED <<man_arg, regex_vars, loader_vars>>

NextKey == GetManufacturer

SpecKey == InitKey /\ [][NextKey]_vars

\* ---- generate_regex applied to one target, the pattern searched in one text
InitRegex ==
    /\ pc = "regex_start"
    /\ target \in TargetInputs
    /\ text \in TextInputs
    /\ regex = Unused /\ found = FALSE
    /\ man_arg = Unused /\ man_key = Unused
    /\ LoaderUnused

GenerateRegex ==
    /\ pc = "regex_start"
    /\ LET r == generate_regex(target) IN
         /\ regex' = r.value
         /\ pc' = IF r.raised THEN "regex_raised" ELSE "regex_compiled"
    /\ UNCHANGED <<target, text, found, key_vars, loader_vars>>

FindAll ==
    /\ pc = "regex_compiled"
    /\ found' = search(regex, text)
    /\ pc' = "regex_searched"
    /\ UNCHANGED <<target, text, regex, key_vars, loader_vars>>

NextRegex == GenerateRegex \/ FindAll

SpecRegex == InitRegex /\ [][NextRegex]_vars

(***************************************************************************)
(* C4 get_manufacturer                                                     *)
(***************************************************************************)
NoLowercase(s) == \A i \in 1..Len(s) : ~IsLowerChar(s[i])

WithoutPeriods(s) == SelectSeq(s, LAMBDA c : c # ".")

\* the key of a non-empty name, character by character
KeyOfNonEmpty(k, m) ==
    LET kept == WithoutPeriods(m) IN
    /\ Len(k) = (IF Len(kept) < 4 THEN Len(kept) ELSE 4)
    /\ \A i \in 1..Len(k) :
          k[i] = (IF kept[i] = "-" THEN " " ELSE upper_char(kept[i]))

RECURSIVE SeparatedForm(_, _)
\* txt is t with at most one separator, a hyphen or a space, written between
\* each two consecutive characters
SeparatedForm(t, txt) ==
    /\ txt # <<>>
    /\ Head(txt) = Head(t)
    /\ IF Len(t) = 1 THEN Len(txt) = 1
       ELSE \/ SeparatedForm(Tail(t), Tail(txt))
            \/ /\ Len(txt) >= 2
               /\ txt[2] \in {"-", " "}
               /\ SeparatedForm(Tail(t), Drop(txt, 3))

\* C5: the pattern of an alphanumeric target matches the uppercased target and
\* every text made from it by writing one hyphen or one space between any of
\* its consecutive characters.
C5_MatchesSeparatedForms ==
    (pc = "regex_searched" /\ SeparatedForm(upper(target), text)) => found

C5_Witness ==
    /\ pc = "regex_searched"
    /\ target = <<"a", "1", "1">>
    /\ text = <<"A", "-", "1", " ", "1">>
    /\ found

RECURSIVE OccEnds(_, _, _, _)
\* the positions where an occurrence of t[k..] that starts at txt[p] ends;
\* consecutive characters are adjacent or separated by "-", " " or "- "
OccEnds(t, k, txt, p) ==
    IF p > Len(txt) \/ txt[p] # t[k] THEN {}
    ELSE IF k = Len(t) THEN {p}
    ELSE LET gaps == {0}
                     \cup (IF p + 1 <= Len(txt) /\ txt[p + 1] \in {"-", " "}
                           THEN {1} ELSE {})
                     \cup (IF p + 2 <= Len(txt) /\ txt[p + 1] = "-" /\ txt[p + 2] = " "
                           THEN {2} ELSE {})
         IN  UNION {OccEnds(t, k + 1, txt, p + g + 1) : g \in gaps}

Occurrences(t, txt) ==
    UNION {{<<i, j>> : j \in OccEnds(t, 1, txt, i)} : i \in 1..Len(txt)}

FollowedByDigit(txt, j) == j < Len(txt) /\ txt[j + 1] \in Digits
PrecededByDigit(txt, i) == i > 1 /\ txt[i - 1] \in Digits

EndsInDigit(t) == t[Len(t)] \in Digits
StartsWithDigit(t) == t[1] \in Digits

\* C6: a target ending in a digit does not match a text where every occurrence
\* is followed by a digit; a target starting with a digit does not match a text
\* where every occurrence is preceded by a digit; an end that is not a digit
\* has no guard: the pattern matches exactly when some occurrence is free of a
\* neighbouring digit on each side whose end of the target is a digit.
C6_DigitGuards ==
    pc = "regex_searched" =>
        \A t \in {upper(target)} :
        \A occ \in {Occurrences(t, text)} :
            /\ (EndsInDigit(t) /\ \A o \in occ : FollowedByDigit(text, o[2])) => ~found
            /\ (StartsWithDigit(t) /\ \A o \in occ : PrecededByDigit(text, o[1])) => ~found
            /\ found <=> \E o \in occ :
                            /\ StartsWithDigit(t) => ~PrecededByDigit(text, o[1])
                            /\ EndsInDigit(t) => ~FollowedByDigit(text, o[2])

\* "1A1" occurs in "11A11" between two digits and is not found there
C6_Witness ==
    /\ pc = "regex_searched"
    /\ target = <<"1", "a", "1">>
    /\ text = <<"1", "1", "A", "1", "1">>
    /\ Occurrences(upper(target), text) # {}
    /\ ~found

(***************************************************************************)
(* collections.defaultdict(list): the keys in insertion order and the map  *)
(***************************************************************************)
EmptyDict == [order |-> <<>>, map |-> <<>>]

\* key in d
contains(d, k) == k \in DOMAIN d.map

\* d[key]: a missing key is inserted with an empty list
getitem(d, k) ==
    IF contains(d, k) THEN [dict |-> d, value |-> d.map[k]]
    ELSE [dict |-> [order |-> Append(d.order, k), map |-> d.map @@ (k :> <<>>)],
          value |-> <<>>]

\* d[key].append(x)
append_at(d, k, x) ==
    LET g == getitem(d, k) IN
    [order |-> g.dict.order,
     map |-> [j \in DOMAIN g.dict.map |->
                 IF j = k THEN Append(g.dict.map[j], x) ELSE g.dict.map[j]]]

\* model_words[man][word], zero when absent
word_count(mw, m, w) ==
    IF m \in DOMAIN mw /\ w \in DOMAIN mw[m] THEN mw[m][w] ELSE 0

\* model_words[man][word] += 1
count_word(mw, m, w) ==
    LET inner == IF m \in DOMAIN mw THEN mw[m] ELSE <<>>
        inner2 == [x \in (DOMAIN inner) \cup {w} |->
                      IF x = w THEN word_count(mw, m, w) + 1 ELSE inner[x]]
    IN  [y \in (DOMAIN mw) \cup {m} |-> IF y = m THEN inner2 ELSE mw[y]]

RECURSIVE count_words(_, _, _)
\* for word in word_list: model_words[man][word] += 1
count_words(mw, m, wl) ==
    IF wl = <<>> THEN mw
    ELSE count_words(count_word(mw, m, Head(wl)), m, Tail(wl))

\* data[field] = value
setitem(data, field, value) ==
    [f \in (DOMAIN data) \cup {field} |-> IF f = field THEN value ELSE data[f]]

(***************************************************************************)
(* load_products                                                           *)
(***************************************************************************)
FreqThreshold == 5

rewrite_model_never(data) == data

\* a model that is just a number is put together with the family name
rewrite_model(data) ==
    IF isdigit(data.model) /\ "family" \in DOMAIN data
    THEN setitem(data, "model", data.family \o <<" ">> \o data.model)
    ELSE data

\* hyphens are word separators only when the model has no space
word_list(model) ==
    IF \E i \in 1..Len(model) : model[i] = " " THEN split_sep(model, " ")
    ELSE split_sep(model, "-")

RECURSIVE concat(_)
concat(words) == IF words = <<>> THEN <<>> ELSE Head(words) \o concat(Tail(words))

reduce_model_one_letter_unique(model, mw, m) ==
    LET wl == word_list(model)
        has_unique == \E i \in 1..Len(wl) :
                         word_count(mw, m, wl[i]) = 1 /\ ~isdigit(wl[i])
    IN  IF Len(wl) > 1 /\ has_unique
        THEN concat(SelectSeq(wl, LAMBDA w : word_count(mw, m, w) < FreqThreshold))
        ELSE model

\* the second loop's new value of product['model']
reduce_model(model, mw, m) ==
    LET wl == word_list(model)
        has_unique == \E i \in 1..Len(wl) :
                         /\ word_count(mw, m, wl[i]) = 1 /\ ~isdigit(wl[i])
                         /\ Len(wl[i]) > 1
    IN  IF Len(wl) > 1 /\ has_unique
        THEN concat(SelectSeq(wl, LAMBDA w : word_count(mw, m, w) < FreqThreshold))
        ELSE model

(***************************************************************************)
(* match_listing                                                           *)
(***************************************************************************)
NumWords == 6

\* ' '.join(title.split()[:num_words])
first_words(title) == join(<<" ">>, Take(split_ws(title), NumWords))

RECURSIVE scan_products(_, _)
\* the products of the bucket whose pattern is found in the title
scan_products(bucket, title) ==
    IF bucket = <<>> THEN <<>>
    ELSE LET t == first_words(title)
             rest == scan_products(Tail(bucket), t)
         IN  IF search(Head(bucket).regex, upper(t)) THEN <<Head(bucket)>> \o rest
             ELSE rest

keep_longest_first_wins(matches) ==
    IF Len(matches) > 1 THEN <<matches[1]>> ELSE matches

\* with several matches, only those of the longest model are kept
keep_longest(matches) ==
    IF Len(matches) > 1
    THEN LET max_len == CHOOSE n \in {Len(matches[i].model) : i \in 1..Len(matches)} :
                            \A i \in 1..Len(matches) : Len(matches[i].model) <= n
         IN  SelectSeq(matches, LAMBDA x : Len(x.model) = max_len)
    ELSE matches

match_listing_title_first(l, d) ==
    LET man0 == get_manufacturer(l.manufacturer)
        words == split_ws(l.title)
        man1 == IF words # <<>> /\ contains(d, get_manufacturer(words[1]))
                THEN get_manufacturer(words[1])
                ELSE man0
    IN  IF ~contains(d, man0) /\ words = <<>>
        THEN [raised |-> TRUE, value |-> "None", man |-> man0, dict |-> d]
        ELSE IF ~contains(d, man1)
        THEN [raised |-> FALSE, value |-> "None", man |-> man1, dict |-> d]
        ELSE LET matches == keep_longest(scan_products(d.map[man1], l.title))
             IN  [raised |-> FALSE, man |-> man1, dict |-> d,
                  value |-> IF Len(matches) = 1 THEN matches[1].product_name
                            ELSE "None"]

match_listing_no_guard(l, d) ==
    LET man0 == get_manufacturer(l.manufacturer)
        words == split_ws(l.title)
    IN  IF ~contains(d, man0) /\ words = <<>>
        THEN [raised |-> TRUE, value |-> "None", man |-> man0, dict |-> d]
        ELSE LET man1 == IF ~contains(d, man0) THEN get_manufacturer(words[1])
                         ELSE man0
                 g == getitem(d, man1)
                 matches == keep_longest(scan_products(g.value, l.title))
             IN  [raised |-> FALSE, man |-> man1, dict |-> g.dict,
                  value |-> IF Len(matches) = 1 THEN matches[1].product_name
                            ELSE "None"]

\* raised: title.split()[0] raises IndexError when the title has no word;
\* man: the local man at the return; dict: products_by_man after the call
match_listing(l, d) ==
    LET man0 == get_manufacturer(l.manufacturer)
        words == split_ws(l.title)
    IN  IF ~contains(d, man0) /\ words = <<>>
        THEN [raised |-> TRUE, value |-> "None", man |-> man0, dict |-> d]
        ELSE LET man1 == IF ~contains(d, man0) THEN get_manufacturer(words[1])
                         ELSE man0
             IN  IF ~contains(d, man1)
                 THEN [raised |-> FALSE, value |-> "None", man |-> man1, dict |-> d]
                 ELSE LET g == getitem(d, man1)
                          matches == keep_longest(scan_products(g.value, l.title))
                      IN  [raised |-> FALSE, man |-> man1, dict |-> g.dict,
                           value |-> IF Len(matches) = 1 THEN matches[1].product_name
                                     ELSE "None"]

(***************************************************************************)
(* Inputs: the product lines and the listing lines                         *)
(***************************************************************************)
Canon == <<"C", "a", "n", "o", "n">>
Panasonic == <<"P", "a", "n", "a", "s", "o", "n", "i", "c">>

CanonPowerShot100 ==
    [manufacturer |-> Canon, family |-> <<"P", "o", "w", "e", "r", "S", "h", "o", "t">>,
     model |-> <<"1", "0", "0">>, product_name |-> "Canon_PowerShot_100"]

ProductPool ==
    << CanonPowerShot100,
       [manufacturer |-> Canon, model |-> <<"1", "0", "0">>, product_name |-> "Canon_100"],
       [manufacturer |-> Panasonic, family |-> <<"L", "u", "m", "i", "x">>, model |-> <<"D", "M", "C", "-", "F", "Z", "1">>,
        product_name |-> "Panasonic_FZ1"],
       [manufacturer |-> Panasonic, model |-> <<"D", "M", "C", "-", "F", "Z", "1", "0">>,
        product_name |-> "Panasonic_FZ10"],
       [manufacturer |-> Panasonic, model |-> <<"D", "M", "C", "-", "T", "S", "2">>,
        product_name |-> "Panasonic_TS2"],
       [manufacturer |-> Panasonic, model |-> <<"D", "M", "C", " ", "F", "Z", "1", "-", "K">>,
        product_name |-> "Panasonic_FZ1K"],
       [manufacturer |-> Panasonic, family |-> <<"L", "u", "m", "i", "x">>, model |-> <<"D", "M", "C", "-", "7">>,
        product_name |-> "Panasonic_7"],
       [manufacturer |-> <<>>, model |-> <<"X", "-", "1">>, product_name |-> "X_1"],
       [manufacturer |-> Canon, model |-> <<"-">>, product_name |-> "Canon_dash"] >>

RECURSIVE PoolLines(_, _)
\* the lines of the pool at the positions of S, in the pool's order
PoolLines(S, from) ==
    IF from > Len(ProductPool) THEN <<>>
    ELSE (IF from \in S THEN <<ProductPool[from]>> ELSE <<>>) \o PoolLines(S, from + 1)

ProductFiles ==
    {PoolLines(S, 1) : S \in {T \in SUBSET (1..Len(ProductPool)) :
                                  Cardinality(T) <= MaxProducts}}

CanonListing ==
    [manufacturer |-> Canon,
     title |-> <<"C", "a", "n", "o", "n", " ", "P", "o", "w", "e", "r", "S", "h", "o", "t", " ", "1", "0", "0", " ", "D", "i", "g", "i", "t", "a", "l", " ", "C", "a", "m", "e", "r", "a">>]

EmptyListing == [manufacturer |-> <<>>, title |-> <<>>]

ListingPool ==
    { CanonListing,
      [manufacturer |-> Canon,
       title |-> <<"C", "a", "n", "o", "n", " ", "P", "o", "w", "e", "r", "S", "h", "o", "t", " ", "1", "0", "0", "0", "s", " ", "x", " ", "y", " ", "z", " ", "1", "0", "0">>],
      [manufacturer |-> <<>>,
       title |-> <<"P", "a", "n", "a", "s", "o", "n", "i", "c", " ", " ", "L", "u", "m", "i", "x", "\t", "D", "M", "C", "-", "F", "Z", "1", "0", " ", "b", "l", "a", "c", "k">>],
      [manufacturer |-> Panasonic,
       title |-> <<"P", "a", "n", "a", "s", "o", "n", "i", "c", " ", "D", "M", "C", " ", "F", "Z", "1", " ", "D", "M", "C", " ", "T", "S", "2", " ", "k", "i", "t">>],
      [manufacturer |-> Panasonic,
       title |-> <<"P", "a", "n", "a", "s", "o", "n", "i", "c", " ", "D", "M", "C", "-", "F", "Z", "1", "-", "K", " ", "1", "2", "M", "P">>],
      EmptyListing,
      [manufacturer |-> Canon,
       title |-> <<"P", "a", "n", "a", "s", "o", "n", "i", "c", " ", "D", "M", "C", "-", "T", "S", "2">>] }

(***************************************************************************)
(* match_all: load_products line by line and product by product, then one  *)
(* match_listing per line of the listings file                             *)
(***************************************************************************)
Init ==
    /\ pc = "loading"
    /\ products_file \in ProductFiles
    /\ line_no = 0
    /\ products_by_manufacturer = EmptyDict
    /\ model_words = <<>>
    /\ cursor = <<1, 1>>
    /\ loaded_index = Unused
    /\ n_listings = 0
    /\ listing = Unused
    /\ listing_man = Unused
    /\ product_name = "None"
    /\ results = EmptyDict
    /\ man_arg = Unused /\ man_key = Unused
    /\ target = Unused /\ text = Unused /\ regex = Unused /\ found = FALSE

match_vars == <<loaded_index, n_listings, listing, listing_man, product_name, results>>

\* first loop of load_products: one line of the products file
LoadLine ==
    /\ pc = "loading"
    /\ line_no < Len(products_file)
    /\ LET data == rewrite_model(products_file[line_no + 1])
           m == get_manufacturer(data.manufacturer)
       IN  /\ model_words' = count_words(model_words, m, word_list(data.model))
           /\ products_by_manufacturer' = append_at(products_by_manufacturer, m, data)
    /\ line_no' = line_no + 1
    /\ UNCHANGED <<pc, cursor, match_vars, key_vars, regex_vars, products_file>>

\* the products file is exhausted: the second loop starts
EndOfProducts ==
    /\ pc = "loading"
    /\ line_no = Len(products_file)
    /\ pc' = "reducing"
    /\ UNCHANGED <<line_no, products_by_manufacturer, model_words, cursor,
                   match_vars, key_vars, regex_vars, products_file>>

\* second loop of load_products: one product of one manufacturer
ReduceModel ==
    /\ pc = "reducing"
    /\ cursor[1] <= Len(products_by_manufacturer.order)
    /\ LET m == products_by_manufacturer.order[cursor[1]]
           bucket == products_by_manufacturer.map[m]
           product == bucket[cursor[2]]
           reduced == setitem(product, "model",
                              reduce_model(product.model, model_words, m))
           r == generate_regex(reduced.model)
           stored == IF r.raised THEN reduced ELSE setitem(reduced, "regex", r.value)
       IN  /\ products_by_manufacturer' =
                 [products_by_manufacturer EXCEPT !.map[m][cursor[2]] = stored]
           /\ pc' = IF r.raised THEN "load_raised" ELSE "reducing"
           /\ cursor' = IF cursor[2] < Len(bucket) THEN <<cursor[1], cursor[2] + 1>>
                        ELSE <<cursor[1] + 1, 1>>
    /\ UNCHANGED <<line_no, model_words, match_vars, key_vars, regex_vars,
                   products_file>>

\* load_products returns the index
Loaded ==
    /\ pc = "reducing"
    /\ cursor[1] > Len(products_by_manufacturer.order)
    /\ pc' = "searching"
    /\ loaded_index' = products_by_manufacturer
    /\ UNCHANGED <<line_no, products_by_manufacturer, model_words, cursor,
                   n_listings, listing, listing_man, product_name, results,
                   key_vars, regex_vars, products_file>>

\* one line of the listings file
MatchListing ==
    /\ pc = "searching"
    /\ n_listings < MaxListings
    /\ \E l \in ListingPool :
          \E r \in {match_listing(l, products_by_manufacturer)} :
          /\ listing' = l
          /\ listing_man' = r.man
          /\ products_by_manufacturer' = r.dict
          /\ pc' = IF r.raised THEN "match_raised" ELSE "searching"
          /\ product_name' = IF r.raised THEN product_name ELSE r.value
          /\ results' = IF ~r.raised /\ r.value # "None"
                        THEN append_at(results, r.value, l) ELSE results
    /\ n_listings' = n_listings + 1
    /\ UNCHANGED <<line_no, model_words, cursor, loaded_index, key_vars, regex_vars,
                   products_file>>

\* the listings file is exhausted: the results are written
WriteResults ==
    /\ pc = "searching"
    /\ pc' = "done"
    /\ UNCHANGED <<line_no, products_by_manufacturer, model_words, cursor,
                   match_vars, key_vars, regex_vars, products_file>>

Next ==
    \/ LoadLine
    \/ EndOfProducts
    \/ ReduceModel
    \/ Loaded
    \/ MatchListing
    \/ WriteResults

Spec == Init /\ [][Next]_vars

(***************************************************************************)
(* Claims about load_products and match_listing                            *)
(***************************************************************************)
IndexReturned == pc \in {"searching", "done", "match_raised"}

\* the last match_listing call returned normally
AfterMatch == pc = "searching" /\ n_listings > 0

IndexKeys == DOMAIN loaded_index.map

ListingKey == get_manufacturer(listing.manufacturer)

TitleKey == get_manufacturer(split_ws(listing.title)[1])

ResolvedKey == IF ListingKey \in IndexKeys THEN ListingKey ELSE TitleKey

\* the uppercased first six words of the title
SearchText == upper(join(<<" ">>, Take(split_ws(listing.title), 6)))

ProductNames(bucket) == {bucket[i].product_name : i \in 1..Len(bucket)}

\* the positions of the bucket whose pattern is found in the search text
Matching(bucket, txt) == {i \in 1..Len(bucket) : search(bucket[i].regex, txt)}

Longest(bucket, M) ==
    {i \in M : \A j \in M : Len(bucket[j].model) <= Len(bucket[i].model)}

\* C1: when the resolved key has entries, the result is the product_name of p
\* exactly when p is the only product of that bucket that matches the search
\* text and has the longest canonical model among the matching ones; with no
\* match or several longest matches the result is "None".
C1_LongestUniqueMatch ==
    (AfterMatch /\ ResolvedKey \in IndexKeys) =>
        \A bucket \in {loaded_index.map[ResolvedKey]} :
        \A L \in {Longest(bucket, Matching(bucket, SearchText))} :
            /\ \A i \in 1..Len(bucket) :
                  (product_name = bucket[i].product_name) <=> (L = {i})
            /\ Cardinality(L) # 1 => product_name = "None"

\* two products match and the longer model wins
C1_Witness ==
    /\ AfterMatch
    /\ ResolvedKey \in IndexKeys
    /\ Cardinality(Matching(loaded_index.map[ResolvedKey], SearchText)) = 2
    /\ product_name = "Panasonic_FZ1K"

\* C2: the bucket of the manufacturer field's key is the one searched whenever
\* that key has entries, whatever the title starts with and whether or not a
\* product of the bucket matches; only otherwise the bucket of the key of the
\* title's first word is searched; when neither key has entries the result is
\* "None".
C2_KeyResolution ==
    AfterMatch =>
        /\ ListingKey \in IndexKeys =>
              /\ listing_man = ListingKey
              /\ product_name # "None" =>
                    product_name \in ProductNames(loaded_index.map[ListingKey])
        /\ ListingKey \notin IndexKeys =>
              /\ listing_man = TitleKey
              /\ TitleKey \notin IndexKeys => product_name = "None"
              /\ product_name # "None" =>
                    product_name \in ProductNames(loaded_index.map[TitleKey])

\* the manufacturer's bucket has no match, the title's bucket would have one
C2_Witness ==
    /\ AfterMatch
    /\ ListingKey \in IndexKeys
    /\ split_ws(listing.title) # <<>>
    /\ TitleKey \in IndexKeys
    /\ TitleKey # ListingKey
    /\ Matching(loaded_index.map[ListingKey], SearchText) = {}
    /\ Matching(loaded_index.map[TitleKey], SearchText) # {}
    /\ product_name = "None"

\* C3: match_listing never ends in an error, whatever the listing, and no
\* listing stops match_all before the listings that follow it.
C3_NeverRaises == pc # "match_raised"

\* the line of the products file a stored product comes from
LineOf(d) ==
    CHOOSE i \in 1..Len(products_file) :
        products_file[i].product_name = d.product_name

Stored == {products_by_manufacturer.map[k][i] :
              <<k, i>> \in {<<k, i>> \in (DOMAIN products_by_manufacturer.map) \X (1..MaxProducts + 1) :
                                i <= Len(products_by_manufacturer.map[k])}}

NumericWithFamily(line) == isdigit(line.model) /\ "family" \in DOMAIN line

\* C7: a numeric model of a product with a family is stored as family, space,
\* model before the words are counted and the model reduced, so that the stored
\* model is never the bare number; the catalog of the single Canon PowerShot
\* 100 product gets the model PowerShot100 and the listing "Canon PowerShot 100
\* Digital Camera" of Canon resolves to it.
C7_NumericModelGetsFamily ==
    /\ \A d \in Stored :
          \A line \in {products_file[LineOf(d)]} :
             NumericWithFamily(line) =>
                /\ d.model # line.model
                /\ pc = "loading" =>
                      /\ d.model = line.family \o <<" ">> \o line.model
                      /\ word_count(model_words, get_manufacturer(line.manufacturer),
                                    line.family) >= 1
    /\ products_file = <<CanonPowerShot100>> =>
          /\ \A d \in Stored : "regex" \in DOMAIN d => d.model = <<"P", "o", "w", "e", "r", "S", "h", "o", "t", "1", "0", "0">>
          /\ (AfterMatch /\ listing = CanonListing) =>
                product_name = "Canon_PowerShot_100"

C7_Witness ==
    /\ products_file = <<CanonPowerShot100>>
    /\ AfterMatch
    /\ listing = CanonListing
    /\ product_name = "Canon_PowerShot_100"
    /\ \A d \in Stored : d.model = <<"P", "o", "w", "e", "r", "S", "h", "o", "t", "1", "0", "0">>

RECURSIVE Occurs(_, _)
\* how many times the word w is in the word list wl
Occurs(w, wl) ==
    IF wl = <<>> THEN 0
    ELSE (IF Head(wl) = w THEN 1 ELSE 0) + Occurs(w, Tail(wl))

\* the model of a line as the second loop finds it
ModelAsLoaded(line) ==
    IF NumericWithFamily(line) THEN line.family \o <<" ">> \o line.model
    ELSE line.model

Tokens(model) ==
    IF \E i \in 1..Len(model) : model[i] = " " THEN split_sep(model, " ")
    ELSE split_sep(model, "-")

RECURSIVE Frequency(_, _, _)
\* the occurrences of the word w in the models of the lines n.. whose
\* manufacturer key is k
Frequency(w, k, n) ==
    IF n > Len(products_file) THEN 0
    ELSE (IF get_manufacturer(products_file[n].manufacturer) = k
          THEN Occurs(w, Tokens(ModelAsLoaded(products_file[n]))) ELSE 0)
         + Frequency(w, k, n + 1)

Distinguishing(w, k) == Frequency(w, k, 1) = 1 /\ ~isdigit(w) /\ Len(w) > 1

RECURSIVE RareTokens(_, _)
\* the concatenation of the words of wl of frequency below 5
RareTokens(wl, k) ==
    IF wl = <<>> THEN <<>>
    ELSE (IF Frequency(Head(wl), k, 1) < 5 THEN Head(wl) ELSE <<>>)
         \o RareTokens(Tail(wl), k)

\* in load_products, or at its return
InLoadProducts ==
    pc \in {"loading", "reducing", "load_raised"} \/ (pc = "searching" /\ n_listings = 0)

\* C8: the reduced model is the concatenation of the model's tokens of
\* frequency below 5 under the manufacturer key if and only if one of its
\* tokens has frequency 1, is not a number and is longer than one character;
\* otherwise the model stays as it was. Stated of every product the second
\* loop has handled, while load_products runs and at its return.
C8_ReducedModel ==
    InLoadProducts =>
    \A d \in Stored :
       "regex" \in DOMAIN d =>
          \A line \in {products_file[LineOf(d)]} :
          \A k \in {get_manufacturer(line.manufacturer)} :
          \A wl \in {Tokens(ModelAsLoaded(line))} :
             d.model = (IF \E i \in 1..Len(wl) : Distinguishing(wl[i], k)
                        THEN RareTokens(wl, k)
                        ELSE ModelAsLoaded(line))

\* five Panasonic models share DMC: it is dropped from DMC-FZ1, kept in DMC-7
C8_Witness ==
    /\ pc = "searching"
    /\ \E d \in Stored : d.product_name = "Panasonic_FZ1" /\ d.model = <<"F", "Z", "1">>
    /\ \E d \in Stored : d.product_name = "Panasonic_7" /\ d.model = <<"D", "M", "C", "-", "7">>

\* C9: load_products completes for every catalog; every indexed product has a
\* non-empty canonical model and a pattern, and every product whose model is
\* not empty without its spaces and hyphens is indexed.
C9_EmptyModelSkipped ==
    /\ pc # "load_raised"
    /\ IndexReturned =>
          /\ \A d \in Stored :
                normalize_target(d.model) # <<>> /\ "regex" \in DOMAIN d
          /\ \A n \in 1..Len(products_file) :
                normalize_target(products_file[n].model) # <<>> =>
                   \E d \in Stored : d.product_name = products_file[n].product_name

\* C10: match_listing leaves the index as load_products returned it (same
\* keys, same products in the same order, same fields), and the result of a
\* listing is the one the index as loaded gives, whatever was matched before.
C10_IndexReadOnly ==
    IndexReturned =>
        /\ products_by_manufacturer = loaded_index
        /\ AfterMatch => product_name = match_listing(listing, loaded_index).value

\* two listings were matched and the last one looked up an absent key
C10_Witness ==
    /\ pc = "searching"
    /\ n_listings = 2
    /\ listing_man \notin IndexKeys
    /\ products_by_manufacturer = loaded_index
    /\ loaded_index.order # <<>>

====
